---- MODULE Spec2Model ----
(***************************************************************************)
(* A model of the sharedwealth proof-of-work blockchain node: Transaction, *)
(* Block (constructor, addTransaction, rerun, serialize, deserialize),     *)
(* and Client (setGenesisBlock, receiveBlock, setLastConfirmed).           *)
(*                                                                         *)
(* Abstractions.  SHA-256 is collision free here: hash(s) is the 1-tuple   *)
(* <<s>>, the empty string is <<>>.  Read as a number, a block hash is     *)
(* HashInt, a small arithmetic digest of the whole serialization, so a     *)
(* proof that is valid for one serialization says nothing about another.   *)
(* An RSA signature is the pair (signing key, signed message).             *)
(***************************************************************************)
EXTENDS Integers, Sequences, FiniteSets, TLC

VARIABLES
    chain,              \* SpecBlock: the blocks built so far, chain[1] the first parent
    lastOp,             \* SpecBlock: the last Block operation (op), its argument (tx), its
                        \* result (ok), the block before it (pre) and how many rerun
                        \* calls the block has gone through, 2 for more (reruns)
    blocks,             \* Client.blocks: id -> Block
    pendingBlocks,      \* Client.pendingBlocks: missing parent id -> orphans, insertion order
    lastBlock,          \* Client.lastBlock
    lastConfirmedBlock, \* Client.lastConfirmedBlock
    lastCall,           \* the last Client call: its kind, result and broadcasts
    delivered,          \* SpecTree: the blocks of the tree passed to receiveBlock so far
    nodes,              \* SpecNet: the Client / Miner instances, by name
    clients,            \* SpecNet: FakeNet.clients, the registered names in insertion order
    timers,             \* SpecNet: the callbacks scheduled with setTimeout(..., 0), in order
    lastRun,            \* SpecNet: the last task run: what ran, on which node, what it sent
    turn,               \* SpecNet: the kind of the last task and the parity of the
                        \* number of tasks the event loop has run
    heap                \* SpecMaps: the Map objects (maps), the Block objects that
                        \* refer to them (objs) and the last operation (last)

vars == <<chain, lastOp, blocks, pendingBlocks, lastBlock, lastConfirmedBlock, lastCall,
          delivered, nodes, clients, timers, lastRun, turn, heap>>

blockVars == <<chain, lastOp, heap>>
clientVars == <<blocks, pendingBlocks, lastBlock, lastConfirmedBlock, lastCall>>
netVars == <<nodes, clients, timers, lastRun, turn>>

-----------------------------------------------------------------------------
(* utils                                                                   *)

\* hash(s): collision free, the preimage itself in a 1-tuple.
hash(s) == <<s>>

\* A public key is named by its owner; the private key carries the same name.
Keys == {"k1", "k2"}

calcAddress(key) == IF key = "k1" THEN "a1" ELSE "a2"

addressMatchesKey(addr, pubKey) == addr = calcAddress(pubKey)

sign(privKey, msg) == [signer |-> privKey, msg |-> msg]

verifySignature(pubKey, msg, sig) == sig.signer = pubKey /\ sig.msg = msg

\* tx.sig === undefined
NoSig == [signer |-> "", msg |-> <<>>]

-----------------------------------------------------------------------------
(* Transaction                                                             *)

TX_CONST == "TX"

Transaction(from, nonce, pubKey, sig, outputs, fee) ==
    [from |-> from, nonce |-> nonce, pubKey |-> pubKey, sig |-> sig,
     fee |-> fee, outputs |-> outputs]

\* get id(): the hash of the fields other than sig.
TxId(tx) ==
    hash(<<TX_CONST, [from |-> tx.from, nonce |-> tx.nonce, pubKey |-> tx.pubKey,
                      outputs |-> tx.outputs, fee |-> tx.fee]>>)

TxSign(tx, privKey) == [tx EXCEPT !.sig = sign(privKey, TxId(tx))]

validSignature(tx) ==
    /\ tx.sig # NoSig
    /\ addressMatchesKey(tx.from, tx.pubKey)
    /\ verifySignature(tx.pubKey, TxId(tx), tx.sig)

RECURSIVE SumAmounts(_)
SumAmounts(outputs) ==
    IF outputs = <<>> THEN 0 ELSE Head(outputs).amount + SumAmounts(Tail(outputs))

totalOutput(tx) == tx.fee + SumAmounts(tx.outputs)

\* A mutant of sufficientFunds: the whole balance cannot be spent.
sufficientFundsStrict(tx, balances) ==
    IF tx.from \notin DOMAIN balances THEN FALSE
    ELSE totalOutput(tx) < balances[tx.from]

sufficientFunds(tx, balances) ==
    IF tx.from \notin DOMAIN balances THEN FALSE
    ELSE totalOutput(tx) <= balances[tx.from]

-----------------------------------------------------------------------------
(* Block                                                                   *)

\* The 256 bits of a hash are two bits here, the shift of 15 a shift of 1,
\* and the easy target of the tests everything below the base target.
POW_BASE_TARGET == 3
HashSpace == POW_BASE_TARGET + 1
HIT_POW_TARGET == POW_BASE_TARGET \div 2
EASY_POW_TARGET == POW_BASE_TARGET

COINBASE_AMT_ALLOWED == 25

GENESIS_REWARD_ADDR == ""
GENESIS_PREV_BLOCK_HASH == <<>>

\* Date.now(): a single instant.
Now == 0

\* proof === undefined
NoProof == -1

\* A Map as a function: get, set.
MapGet(m, k, default) == IF k \in DOMAIN m THEN m[k] ELSE default

MapSet(m, k, v) == [x \in DOMAIN m \cup {k} |-> IF x = k THEN v ELSE m[x]]

EmptyMap == [x \in {} |-> 0]

\* transactions: a Map in insertion order, a sequence of [key, tx] entries.
TxMapHas(txs, key) == \E i \in 1..Len(txs) : txs[i].key = key

TxMapSet(txs, key, tx) ==
    IF TxMapHas(txs, key)
    THEN [i \in 1..Len(txs) |-> IF txs[i].key = key THEN [key |-> key, tx |-> tx] ELSE txs[i]]
    ELSE Append(txs, [key |-> key, tx |-> tx])

balanceOf(b, addr) == MapGet(b.balances, addr, 0)

RECURSIVE SumFees(_)
SumFees(txs) == IF txs = <<>> THEN 0 ELSE Head(txs).tx.fee + SumFees(Tail(txs))

totalRewards(b) == b.coinbaseReward + SumFees(b.transactions)

serialize(b) ==
    [transactions |-> b.transactions, prevBlockHash |-> b.prevBlockHash,
     timestamp |-> b.timestamp, proof |-> b.proof, rewardAddr |-> b.rewardAddr,
     chainLength |-> b.chainLength]

hashVal(b) == hash(serialize(b))

BlockId(b) == hashVal(b)

\* The hash read as a number (new BigInteger(h, 16)): a digest of every
\* serialized field, the parent's hash included.
RECURSIVE SerWeight(_)
SerWeight(s) ==
    LET EntryWeight(e) ==
            (IF e.key = TxId(e.tx) THEN 0 ELSE 1) + e.tx.nonce + totalOutput(e.tx)
            + (IF e.tx.sig = NoSig THEN 1 ELSE 0)
            + (IF e.tx.sig.signer = e.tx.pubKey THEN 0 ELSE 1)
        EntriesWeight[i \in 0..Len(s.transactions)] ==
            IF i = 0 THEN 0 ELSE EntriesWeight[i - 1] + i * EntryWeight(s.transactions[i])
    IN  EntriesWeight[Len(s.transactions)]
        + (IF s.proof = NoProof THEN 0 ELSE s.proof + 1)
        + s.chainLength + s.timestamp
        + (IF s.rewardAddr = "" THEN 0 ELSE 1)
        + (IF s.prevBlockHash = GENESIS_PREV_BLOCK_HASH THEN 0
           ELSE 1 + SerWeight(s.prevBlockHash[1]))

HashInt(h) == SerWeight(h[1]) % HashSpace

CompareLT(n, target) == n < target

hasValidProof(b) == CompareLT(HashInt(hashVal(b)), b.target)

isGenesisBlock(b) == b.prevBlockHash = GENESIS_PREV_BLOCK_HASH

\* new Block(rewardAddr): no previous block.
NewGenesisBlock(rewardAddr, target, coinbaseReward) ==
    [prevBlockHash |-> GENESIS_PREV_BLOCK_HASH, target |-> target,
     balances |-> EmptyMap, nextNonce |-> EmptyMap, transactions |-> <<>>,
     chainLength |-> 0, timestamp |-> Now, rewardAddr |-> rewardAddr,
     coinbaseReward |-> coinbaseReward, proof |-> NoProof]

\* new Block(rewardAddr, prevBlock, target, coinbaseReward)
NewBlock(rewardAddr, prevBlock, target, coinbaseReward) ==
    LET copied == [prevBlockHash |-> hashVal(prevBlock), target |-> target,
                   balances |-> prevBlock.balances, nextNonce |-> prevBlock.nextNonce,
                   transactions |-> <<>>, chainLength |-> prevBlock.chainLength + 1,
                   timestamp |-> Now, rewardAddr |-> rewardAddr,
                   coinbaseReward |-> coinbaseReward, proof |-> NoProof]
    IN  IF prevBlock.rewardAddr # ""
        THEN [copied EXCEPT !.balances =
                 MapSet(copied.balances, prevBlock.rewardAddr,
                        balanceOf(copied, prevBlock.rewardAddr) + totalRewards(prevBlock))]
        ELSE copied

\* The credits of tx.outputs.forEach, in order.
RECURSIVE CreditOutputs(_, _)
CreditOutputs(balances, outputs) ==
    IF outputs = <<>> THEN balances
    ELSE CreditOutputs(
             MapSet(balances, Head(outputs).address,
                    Head(outputs).amount + MapGet(balances, Head(outputs).address, 0)),
             Tail(outputs))

\* A mutant of NonceAccepted: a replayed nonce is let through.
NonceAcceptedReplay(txNonce, nonce) == ~(txNonce > nonce)

\* Neither replayed (tx.nonce < nonce) nor out of order (tx.nonce > nonce).
NonceAccepted(txNonce, nonce) == ~(txNonce < nonce) /\ ~(txNonce > nonce)

\* A mutant of addTransaction: the sender is debited before the nonce is checked.
addTransactionDebitFirst(b, tx) ==
    IF TxMapHas(b.transactions, TxId(tx)) THEN [ok |-> FALSE, b |-> b]
    ELSE IF tx.sig = NoSig THEN [ok |-> FALSE, b |-> b]
    ELSE IF ~validSignature(tx) THEN [ok |-> FALSE, b |-> b]
    ELSE IF ~sufficientFunds(tx, b.balances) THEN [ok |-> FALSE, b |-> b]
    ELSE
        LET nonce == MapGet(b.nextNonce, tx.from, 0)
            b0 == [b EXCEPT !.balances =
                      MapSet(b.balances, tx.from, balanceOf(b, tx.from) - totalOutput(tx))]
        IN
        IF ~NonceAccepted(tx.nonce, nonce) THEN [ok |-> FALSE, b |-> b0]
        ELSE
            LET b1 == [b0 EXCEPT !.nextNonce = MapSet(b.nextNonce, tx.from, nonce + 1),
                                 !.transactions = TxMapSet(b.transactions, TxId(tx), tx)]
            IN  [ok |-> TRUE,
                 b |-> [b1 EXCEPT !.balances = CreditOutputs(b1.balances, tx.outputs)]]

\* Block.addTransaction: [ok, b], b the block afterwards.
addTransaction(b, tx) ==
    IF TxMapHas(b.transactions, TxId(tx)) THEN [ok |-> FALSE, b |-> b]
    ELSE IF tx.sig = NoSig THEN [ok |-> FALSE, b |-> b]
    ELSE IF ~validSignature(tx) THEN [ok |-> FALSE, b |-> b]
    ELSE IF ~sufficientFunds(tx, b.balances) THEN [ok |-> FALSE, b |-> b]
    ELSE
        LET nonce == MapGet(b.nextNonce, tx.from, 0) IN
        IF ~NonceAccepted(tx.nonce, nonce) THEN [ok |-> FALSE, b |-> b]
        ELSE
            LET b1 == [b EXCEPT !.nextNonce = MapSet(b.nextNonce, tx.from, nonce + 1),
                                !.transactions = TxMapSet(b.transactions, TxId(tx), tx)]
                b2 == [b1 EXCEPT !.balances =
                          MapSet(b1.balances, tx.from, balanceOf(b1, tx.from) - totalOutput(tx))]
            IN  [ok |-> TRUE,
                 b |-> [b2 EXCEPT !.balances = CreditOutputs(b2.balances, tx.outputs)]]

\* A mutant of ReAdd: a transaction that is not admitted is skipped.
RECURSIVE ReAddSkipping(_, _, _)
ReAddSkipping(b, txs, i) ==
    IF i > Len(txs) THEN [ok |-> TRUE, b |-> b]
    ELSE ReAddSkipping(addTransaction(b, txs[i].tx).b, txs, i + 1)

\* The loop of rerun: re-add txs[i..], stop at the first failure.
RECURSIVE ReAdd(_, _, _)
ReAdd(b, txs, i) ==
    IF i > Len(txs) THEN [ok |-> TRUE, b |-> b]
    ELSE LET r == addTransaction(b, txs[i].tx)
         IN  IF ~r.ok THEN [ok |-> FALSE, b |-> r.b] ELSE ReAdd(r.b, txs, i + 1)

\* Block.rerun(prevBlock): [ok, b]
rerun(b, prevBlock) ==
    LET reset == [b EXCEPT !.balances = prevBlock.balances,
                           !.nextNonce = prevBlock.nextNonce]
        paid == [reset EXCEPT !.balances =
                    MapSet(reset.balances, prevBlock.rewardAddr,
                           balanceOf(reset, prevBlock.rewardAddr) + totalRewards(prevBlock)),
                              !.transactions = <<>>]
    IN  ReAdd(paid, b.transactions, 1)

\* The loop of deserialize over o.transactions.
RECURSIVE RestoreTxs(_, _)
RestoreTxs(txs, entries) ==
    IF entries = <<>> THEN txs
    ELSE RestoreTxs(TxMapSet(txs, Head(entries).key, Head(entries).tx), Tail(entries))

\* Block.deserialize(str): o is the parsed JSON.
deserialize(o) ==
    [NewGenesisBlock(o.rewardAddr, HIT_POW_TARGET, COINBASE_AMT_ALLOWED) EXCEPT
        !.proof = o.proof, !.timestamp = o.timestamp, !.chainLength = o.chainLength,
        !.prevBlockHash = o.prevBlockHash,
        !.transactions = RestoreTxs(<<>>, o.transactions)]

-----------------------------------------------------------------------------
(* Client                                                                  *)

\* If a block is 6 blocks older than the current block, it is confirmed.
CONFIRMED_DEPTH == 6

\* this.lastBlock / this.lastConfirmedBlock === undefined
NoBlock == [none |-> TRUE]

\* The address of the client modelled.
ClientAddress == "c1"

\* The fields of a Client that receiveBlock reads and writes.
ClientState(bs, pend, lb, lcb) ==
    [blocks |-> bs, pendingBlocks |-> pend, lastBlock |-> lb, lastConfirmedBlock |-> lcb]

\* requestMissingBlock(block): the message broadcast.
requestMissingBlock(block) ==
    [type |-> "MISSING_BLOCK", from |-> ClientAddress, missing |-> block.prevBlockHash]

\* The loop of setLastConfirmed: walk the parents down to confirmedBlockHeight.
\* blocks.get of an id that is not stored is undefined.
RECURSIVE WalkToHeight(_, _, _)
WalkToHeight(bs, block, confirmedBlockHeight) ==
    IF block = NoBlock THEN NoBlock
    ELSE IF block.chainLength > confirmedBlockHeight
    THEN WalkToHeight(bs, MapGet(bs, block.prevBlockHash, NoBlock), confirmedBlockHeight)
    ELSE block

\* A mutant of setLastConfirmed: the operands of the subtraction are swapped.
setLastConfirmedSwapped(st) ==
    LET h == CONFIRMED_DEPTH - st.lastBlock.chainLength
        confirmedBlockHeight == IF h < 0 THEN 0 ELSE h
    IN  [st EXCEPT !.lastConfirmedBlock =
            WalkToHeight(st.blocks, st.lastBlock, confirmedBlockHeight)]

setLastConfirmed(st) ==
    LET h == st.lastBlock.chainLength - CONFIRMED_DEPTH
        confirmedBlockHeight == IF h < 0 THEN 0 ELSE h
    IN  [st EXCEPT !.lastConfirmedBlock =
            WalkToHeight(st.blocks, st.lastBlock, confirmedBlockHeight)]

\* Mutants of IsBetter: a tie replaces the incumbent; one block more is not enough.
IsBetterOrEqual(lb, block) == lb.chainLength <= block.chainLength

IsBetterByTwo(lb, block) == lb.chainLength + 1 < block.chainLength

\* The fork choice of receiveBlock.
IsBetter(lb, block) == lb.chainLength < block.chainLength

\* A mutant of NoStuckBlocks: every orphan counts as the first for its parent.
NoStuckBlocksEver(pend, h) == TRUE

\* stuckBlocks === undefined: no orphan waits for the block with id h.
NoStuckBlocks(pend, h) == h \notin DOMAIN pend

\* Client.receiveBlock(block), block already deserialized:
\* [st, ret, outcome, sent], ret the block returned or NoBlock for null,
\* sent the messages broadcast, the recursive calls' included.
RECURSIVE receiveBlock(_, _)
RECURSIVE receiveUnstuck(_, _, _)
\* A mutant of receiveBlock: a block whose parent is not stored is stored as
\* it came, instead of waiting.
receiveBlockStoringOrphans(st, block) ==
    IF BlockId(block) \in DOMAIN st.blocks
    THEN [st |-> st, ret |-> NoBlock, outcome |-> "known", sent |-> <<>>]
    ELSE IF ~hasValidProof(block)
    THEN [st |-> st, ret |-> NoBlock, outcome |-> "invalid proof", sent |-> <<>>]
    ELSE IF block.prevBlockHash \notin DOMAIN st.blocks
    THEN [st |-> [st EXCEPT !.blocks = MapSet(st.blocks, BlockId(block), block)],
          ret |-> block, outcome |-> "accepted", sent |-> <<>>]
    ELSE LET r == rerun(block, st.blocks[block.prevBlockHash]) IN
         IF ~r.ok
         THEN [st |-> st, ret |-> NoBlock, outcome |-> "invalid transaction", sent |-> <<>>]
         ELSE [st |-> [st EXCEPT !.blocks = MapSet(st.blocks, BlockId(r.b), r.b)],
               ret |-> r.b, outcome |-> "accepted", sent |-> <<>>]

receiveBlock(st, block) ==
    IF BlockId(block) \in DOMAIN st.blocks
    THEN [st |-> st, ret |-> NoBlock, outcome |-> "known", sent |-> <<>>]
    ELSE IF ~hasValidProof(block)
    THEN [st |-> st, ret |-> NoBlock, outcome |-> "invalid proof", sent |-> <<>>]
    ELSE IF block.prevBlockHash \notin DOMAIN st.blocks
    THEN LET first == NoStuckBlocks(st.pendingBlocks, block.prevBlockHash)
             stuckBlocks == IF first THEN <<>> ELSE st.pendingBlocks[block.prevBlockHash]
         IN  [st |-> [st EXCEPT !.pendingBlocks =
                         MapSet(st.pendingBlocks, block.prevBlockHash,
                                Append(stuckBlocks, block))],
              ret |-> NoBlock, outcome |-> "missing parent",
              sent |-> IF first THEN <<requestMissingBlock(block)>> ELSE <<>>]
    ELSE LET r == rerun(block, st.blocks[block.prevBlockHash]) IN
         IF ~r.ok
         THEN [st |-> st, ret |-> NoBlock, outcome |-> "invalid transaction", sent |-> <<>>]
         ELSE LET b == r.b
                  stored == [st EXCEPT !.blocks = MapSet(st.blocks, BlockId(b), b)]
                  chosen == IF IsBetter(stored.lastBlock, b)
                            THEN setLastConfirmed([stored EXCEPT !.lastBlock = b])
                            ELSE stored
                  unstuckBlocks == MapGet(chosen.pendingBlocks, BlockId(b), <<>>)
                  popped == [chosen EXCEPT !.pendingBlocks =
                                [k \in DOMAIN chosen.pendingBlocks \ {BlockId(b)} |->
                                     chosen.pendingBlocks[k]]]
                  done == receiveUnstuck(popped, unstuckBlocks, 1)
              IN  [st |-> done.st, ret |-> b, outcome |-> "accepted", sent |-> done.sent]

\* A mutant of receiveUnstuck: only the first waiting block is received.
receiveUnstuckFirst(st, unstuckBlocks, i) ==
    IF i > Len(unstuckBlocks) \/ i > 1 THEN [st |-> st, sent |-> <<>>]
    ELSE LET r == receiveBlock(st, unstuckBlocks[i])
         IN  [st |-> r.st, sent |-> r.sent]

\* for (const b of unstuckBlocks) this.receiveBlock(b)
receiveUnstuck(st, unstuckBlocks, i) ==
    IF i > Len(unstuckBlocks) THEN [st |-> st, sent |-> <<>>]
    ELSE LET r == receiveBlock(st, unstuckBlocks[i])
             rest == receiveUnstuck(r.st, unstuckBlocks, i + 1)
         IN  [st |-> rest.st, sent |-> r.sent \o rest.sent]

-----------------------------------------------------------------------------
(* Building blocks: new Block, addTransaction, rerun                       *)

MaxChain == 3       \* blocks in the chain built, the first parent included
MaxTxs == 2         \* transactions admitted to one block; nonces offered: 0..MaxTxs - 1

Miners == {"m1"}

\* The starting gold of makeGenesis / of the tests' prevBlock.
StartBalances == [a \in {"a1"} |-> 4]

\* The first parent: the genesis of makeGenesis (no reward address), or a
\* block made by new Block(addr) and given balances, as the tests do.
FirstParents ==
    { [NewGenesisBlock(r, HIT_POW_TARGET, COINBASE_AMT_ALLOWED) EXCEPT
          !.balances = StartBalances] : r \in {GENESIS_REWARD_ADDR} \cup Miners }

\* Who pays, with which public key: the owner's, or another's.
Senders ==
    { [from |-> "a1", pubKey |-> "k1"], [from |-> "a2", pubKey |-> "k2"],
      [from |-> "a1", pubKey |-> "k2"] }

\* What is paid: outputs and fee.
Payments ==
    { [outputs |-> <<[amount |-> 1, address |-> "a2"]>>, fee |-> 1],
      [outputs |-> <<[amount |-> 2, address |-> "a2"], [amount |-> 1, address |-> "a1"]>>,
       fee |-> 1],
      [outputs |-> <<[amount |-> 1, address |-> "a2"]>>, fee |-> 0] }

\* Every transaction offered to addTransaction: not signed, signed with the
\* key it names, or signed with the other key.
UnsignedTxs ==
    { Transaction(s.from, n, s.pubKey, NoSig, p.outputs, p.fee) :
        s \in Senders, n \in 0..(MaxTxs - 1), p \in Payments }

OfferedTxs ==
    UnsignedTxs \cup { TxSign(t, k) : t \in UnsignedTxs, k \in Keys }

NoTx == Transaction("", 0, "", NoSig, <<>>, 0)

Tip == chain[Len(chain)]

\* The value of heap while no Map object is modelled.
NoHeap == [maps |-> <<>>, objs |-> <<>>, last |-> [op |-> "none", obj |-> 0]]

\* The values of the network's variables while no network is modelled.
NetIdle ==
    /\ nodes = <<>>
    /\ clients = <<>>
    /\ timers = <<>>
    /\ lastRun = <<>>
    /\ turn = <<>>

\* The first parent alone; no client is involved.
BlockInit ==
    /\ \E p \in FirstParents : chain = <<p>>
    /\ lastOp = [op |-> "init", tx |-> NoTx, ok |-> TRUE, pre |-> chain[1], reruns |-> 0]
    /\ heap = NoHeap
    /\ blocks = EmptyMap
    /\ pendingBlocks = EmptyMap
    /\ lastBlock = NoBlock
    /\ lastConfirmedBlock = NoBlock
    /\ lastCall = [op |-> "new", outcome |-> "", ret |-> <<>>, sent |-> <<>>]
    /\ delivered = [tree |-> {}, passed |-> {}]
    /\ NetIdle

\* new Block(addr, tip)
BNew(addr) ==
    /\ Len(chain) < MaxChain
    /\ chain' = Append(chain, NewBlock(addr, Tip, HIT_POW_TARGET, COINBASE_AMT_ALLOWED))
    /\ lastOp' = [op |-> "new", tx |-> NoTx, ok |-> TRUE, pre |-> Tip, reruns |-> 0]

\* tip.addTransaction(tx)
BAdd(tx) ==
    /\ Len(chain) >= 2
    /\ Len(Tip.transactions) < MaxTxs
    /\ LET r == addTransaction(Tip, tx) IN
        /\ chain' = [chain EXCEPT ![Len(chain)] = r.b]
        /\ lastOp' = [op |-> "add", tx |-> tx, ok |-> r.ok, pre |-> Tip,
                      reruns |-> lastOp.reruns]

\* tip.rerun(parent)
BRerun ==
    /\ Len(chain) >= 2
    /\ LET r == rerun(Tip, chain[Len(chain) - 1]) IN
        /\ chain' = [chain EXCEPT ![Len(chain)] = r.b]
        /\ lastOp' = [op |-> "rerun", tx |-> NoTx, ok |-> r.ok, pre |-> Tip,
                      reruns |-> IF lastOp.reruns = 0 THEN 1 ELSE 2]

\* The proofs a block is serialized with: none yet, or a number.
SealProofs == {NoProof, 0, 1}

\* b2 = Block.deserialize(B.serialize()); b2.rerun(parent), B the tip with the
\* proof it is serialized with.  The tip itself is not touched.  copy is b2
\* before rerun, rerunCopy b2 after it.
BRoundTrip(proof) ==
    /\ Len(chain) >= 2
    /\ LET B == [Tip EXCEPT !.proof = proof]
           b2 == deserialize(serialize(B))
           r == rerun(b2, chain[Len(chain) - 1])
       IN  /\ UNCHANGED chain
           /\ lastOp' = [op |-> "roundtrip", tx |-> NoTx, ok |-> r.ok, pre |-> B,
                         reruns |-> lastOp.reruns, copy |-> b2, rerunCopy |-> r.b]

BlockNext ==
    \/ \E addr \in Miners : BNew(addr) /\ UNCHANGED <<heap, clientVars, delivered, netVars>>
    \/ \E tx \in OfferedTxs : BAdd(tx) /\ UNCHANGED <<heap, clientVars, delivered, netVars>>
    \/ BRerun /\ UNCHANGED <<heap, clientVars, delivered, netVars>>
    \/ \E p \in SealProofs : BRoundTrip(p) /\ UNCHANGED <<heap, clientVars, delivered, netVars>>

SpecBlock == BlockInit /\ [][BlockNext]_vars

\* SpecGold: the operations of SpecBlock, with transactions that are all
\* signed by their sender but whose amounts and fee may be negative, which
\* nothing in Transaction or addTransaction rules out.
AnyPayments ==
    { [outputs |-> <<[amount |-> 1, address |-> "a2"]>>, fee |-> 1],
      [outputs |-> <<[amount |-> -2, address |-> "a2"], [amount |-> 2, address |-> "a1"]>>,
       fee |-> 0],
      [outputs |-> <<[amount |-> 1, address |-> "a2"]>>, fee |-> -1] }

SignedTxs ==
    { TxSign(Transaction(calcAddress(k), n, k, NoSig, p.outputs, p.fee), k) :
        k \in Keys, n \in 0..(MaxTxs - 1), p \in AnyPayments }

GoldNext ==
    \/ \E addr \in Miners : BNew(addr) /\ UNCHANGED <<heap, clientVars, delivered, netVars>>
    \/ \E tx \in SignedTxs : BAdd(tx) /\ UNCHANGED <<heap, clientVars, delivered, netVars>>
    \/ BRerun /\ UNCHANGED <<heap, clientVars, delivered, netVars>>

SpecGold == BlockInit /\ [][GoldNext]_vars

-----------------------------------------------------------------------------
(***************************************************************************)
(* Blocks and their Maps as objects (SpecMaps)                             *)
(*                                                                         *)
(* balances and nextNonce are Map objects a Block refers to, and set()     *)
(* writes to the object, whoever else refers to it.  heap.maps are the Map *)
(* objects; heap.objs the Block objects: b the block, balances and         *)
(* nextNonce the numbers of the Map objects its two fields refer to, prev  *)
(* the Block object it was constructed from (0 for the first parent).      *)
(***************************************************************************)

MaxObjs == 3        \* Block objects constructed, the first parent included
MaxMaps == 8        \* Map objects constructed

\* The field refers to the Map object it is given.
SameMap(maps, ref) == [maps |-> maps, ref |-> ref]

\* new Map(m): a Map object of its own that starts with m's entries.
NewMap(maps, ref) == [maps |-> Append(maps, maps[ref]), ref |-> Len(maps) + 1]

\* Block object i as its fields read.
Load(h, i) ==
    [h.objs[i].b EXCEPT !.balances = h.maps[h.objs[i].balances],
                        !.nextNonce = h.maps[h.objs[i].nextNonce]]

\* The writes of an operation on Block object i that leave it as b:
\* this.balances.set and this.nextNonce.set write to the Map objects the
\* fields refer to.
Write(h, i, b, op) ==
    [maps |-> [h.maps EXCEPT ![h.objs[i].balances] = b.balances,
                             ![h.objs[i].nextNonce] = b.nextNonce],
     objs |-> [h.objs EXCEPT ![i].b = b],
     last |-> [op |-> op, obj |-> i]]

\* Block object i refers to two Map objects made from those of object p.
Derived(h, i, p, b, bal, non) ==
    [maps |-> non.maps,
     objs |-> [j \in (1..Len(h.objs)) \cup {i} |->
                 IF j = i
                 THEN [b |-> b, balances |-> bal.ref, nextNonce |-> non.ref, prev |-> p]
                 ELSE h.objs[j]],
     last |-> h.last]

\* The first parent and its two Map objects.
MapsInit ==
    /\ \E p \in FirstParents :
          heap = [maps |-> <<p.balances, p.nextNonce>>,
                  objs |-> <<[b |-> p, balances |-> 1, nextNonce |-> 2, prev |-> 0]>>,
                  last |-> [op |-> "init", obj |-> 1]]
    /\ chain = <<>>
    /\ lastOp = [op |-> "none"]
    /\ blocks = EmptyMap
    /\ pendingBlocks = EmptyMap
    /\ lastBlock = NoBlock
    /\ lastConfirmedBlock = NoBlock
    /\ lastCall = [op |-> "new", outcome |-> "", ret |-> <<>>, sent |-> <<>>]
    /\ delivered = [tree |-> {}, passed |-> {}]
    /\ NetIdle

\* new Block(addr, P), P the Block object p
MNew(addr, p) ==
    /\ Len(heap.objs) < MaxObjs
    /\ Len(heap.maps) + 2 <= MaxMaps
    /\ LET bal == NewMap(heap.maps, heap.objs[p].balances)
           non == NewMap(bal.maps, heap.objs[p].nextNonce)
           b == NewBlock(addr, Load(heap, p), HIT_POW_TARGET, COINBASE_AMT_ALLOWED)
           i == Len(heap.objs) + 1
       IN  heap' = Write(Derived(heap, i, p, b, bal, non), i, b, "new")

\* child.addTransaction(tx), child the Block object i
MAdd(i, tx) ==
    /\ heap.objs[i].prev # 0
    /\ Len(heap.objs[i].b.transactions) < MaxTxs
    /\ heap' = Write(heap, i, addTransaction(Load(heap, i), tx).b, "add")

\* child.rerun(P), child the Block object i and P the one it was made from
MRerun(i) ==
    /\ heap.objs[i].prev # 0
    /\ Len(heap.maps) + 2 <= MaxMaps
    /\ LET p == heap.objs[i].prev
           bal == NewMap(heap.maps, heap.objs[p].balances)
           non == NewMap(bal.maps, heap.objs[p].nextNonce)
           b == rerun(Load(heap, i), Load(heap, p)).b
       IN  heap' = Write(Derived(heap, i, p, b, bal, non), i, b, "rerun")

MapsNext ==
    \/ \E addr \in Miners, p \in 1..Len(heap.objs) :
          MNew(addr, p) /\ UNCHANGED <<chain, lastOp, clientVars, delivered, netVars>>
    \/ \E i \in 1..Len(heap.objs), tx \in OfferedTxs :
          MAdd(i, tx) /\ UNCHANGED <<chain, lastOp, clientVars, delivered, netVars>>
    \/ \E i \in 1..Len(heap.objs) :
          MRerun(i) /\ UNCHANGED <<chain, lastOp, clientVars, delivered, netVars>>

SpecMaps == MapsInit /\ [][MapsNext]_vars

-----------------------------------------------------------------------------
(* The client and the blocks the network hands it                          *)

MaxBlocks == 3      \* blocks the client stores, the genesis included
MaxPending == 2     \* orphans the client holds
BogusLength == 7    \* a chainLength on the wire that is not the parent's plus one

\* The genesis block of makeGenesis.
Genesis ==
    [NewGenesisBlock(GENESIS_REWARD_ADDR, HIT_POW_TARGET, COINBASE_AMT_ALLOWED) EXCEPT
        !.balances = StartBalances]

PayOne == <<[amount |-> 1, address |-> "a2"]>>
PayFive == <<[amount |-> 5, address |-> "a2"]>>

T0 == TxSign(Transaction("a1", 0, "k1", NoSig, PayOne, 1), "k1")
T1 == TxSign(Transaction("a1", 1, "k1", NoSig, PayOne, 1), "k1")
T0again == TxSign(Transaction("a1", 0, "k1", NoSig, PayOne, 0), "k1")
T0unsigned == Transaction("a1", 0, "k1", NoSig, PayOne, 1)
T0big == TxSign(Transaction("a1", 0, "k1", NoSig, PayFive, 0), "k1")

Entry(tx) == [key |-> TxId(tx), tx |-> tx]

\* The transactions arrays of the blocks on the wire: honest ones, and ones
\* no honest miner would send (out of order, replayed, unsigned, overspending,
\* or listed under a key that is not the transaction's id).
WireTxLists ==
    { <<>>, <<Entry(T0)>>, <<Entry(T1)>>, <<Entry(T0again)>>,
      <<Entry(T0), Entry(T1)>>, <<Entry(T1), Entry(T0)>>,
      <<Entry(T0unsigned)>>, <<Entry(T0big)>>,
      <<[key |-> TxId(T1), tx |-> T0]>> }

WireBlock(prevBlockHash, chainLength, entries, rewardAddr) ==
    [transactions |-> entries, prevBlockHash |-> prevBlockHash, timestamp |-> Now,
     proof |-> 0, rewardAddr |-> rewardAddr, chainLength |-> chainLength]

\* The first proof a search from 0 finds for the block as a receiver reads it.
Mined(o) ==
    LET ok(p) == hasValidProof(deserialize([o EXCEPT !.proof = p]))
    IN  [o EXCEPT !.proof = CHOOSE p \in 0..POW_BASE_TARGET :
                                ok(p) /\ \A q \in 0..(p - 1) : ~ok(q)]

\* A proof that is not valid.
Spoiled(o) ==
    [o EXCEPT !.proof = CHOOSE p \in 0..POW_BASE_TARGET :
                            ~hasValidProof(deserialize([o EXCEPT !.proof = p]))]

\* The mined block without transactions on top of parent.
PlainChild(parent) ==
    Mined(WireBlock(BlockId(parent), parent.chainLength + 1, <<>>, "m1"))

\* The transactions arrays of the blocks sent before their parent.
EarlyTxLists == { <<>>, <<Entry(T0)>>, <<Entry(T0unsigned)>> }

\* What the network may send on top of parent: mined blocks, blocks whose
\* proof is not valid, and a mined block that lies about its chainLength.
WireChildren(parent, txLists) ==
    { Mined(WireBlock(BlockId(parent), parent.chainLength + 1, e, "m1")) : e \in txLists }
    \cup { Spoiled(WireBlock(BlockId(parent), parent.chainLength + 1, e, "m1")) :
             e \in {<<>>, <<Entry(T0)>>} }
    \cup { Mined(WireBlock(BlockId(parent), BogusLength, <<>>, "m1")) }

Range(f) == { f[x] : x \in DOMAIN f }

StoredBlocks == Range(blocks)

PendingList(k) == pendingBlocks[k]

PendingSet == UNION { Range(PendingList(k)) : k \in DOMAIN pendingBlocks }

RECURSIVE SumLen(_, _)
SumLen(f, keys) ==
    IF keys = {} THEN 0
    ELSE LET k == CHOOSE x \in keys : TRUE IN Len(f[k]) + SumLen(f, keys \ {k})

BlocksStored == Cardinality(DOMAIN blocks)

BlocksPending == SumLen(pendingBlocks, DOMAIN pendingBlocks)

\* The blocks other nodes may build on.  Stored here: KnownParents.  Not
\* stored here: the genesis before it is set, a mined block this client has
\* not been sent yet, and the orphans it holds.
KnownParents == StoredBlocks

EarlyParents ==
    { b \in {Genesis} \cup PendingSet \cup { deserialize(PlainChild(p)) : p \in KnownParents } :
        BlockId(b) \notin DOMAIN blocks }

WireInputs ==
    UNION { WireChildren(p, WireTxLists) : p \in KnownParents }
    \cup UNION { WireChildren(p, EarlyTxLists) : p \in EarlyParents }

Here == ClientState(blocks, pendingBlocks, lastBlock, lastConfirmedBlock)

\* new Client({...}) without startingBlock; no Block operation is under way.
ClientInit ==
    /\ blocks = EmptyMap
    /\ pendingBlocks = EmptyMap
    /\ lastBlock = NoBlock
    /\ lastConfirmedBlock = NoBlock
    /\ lastCall = [op |-> "new", outcome |-> "", ret |-> <<>>, sent |-> <<>>]
    /\ delivered = [tree |-> {}, passed |-> {}]
    /\ NetIdle
    /\ chain = <<Genesis>>
    /\ lastOp = [op |-> "init", tx |-> NoTx, ok |-> TRUE, pre |-> Genesis, reruns |-> 0]
    /\ heap = NoHeap

\* client.setGenesisBlock(startingBlock); throws when lastBlock is set.
SetGenesisBlock(startingBlock) ==
    /\ lastBlock = NoBlock
    /\ lastConfirmedBlock' = startingBlock
    /\ lastBlock' = startingBlock
    /\ blocks' = MapSet(blocks, BlockId(startingBlock), startingBlock)
    /\ lastCall' = [op |-> "setGenesisBlock", outcome |-> "", ret |-> <<>>, sent |-> <<>>]
    /\ UNCHANGED pendingBlocks

\* The PROOF_FOUND handler: client.receiveBlock(str)
ReceiveBlock(o) ==
    /\ \E r \in {receiveBlock(Here, deserialize(o))} :
        /\ r.outcome = "missing parent" => BlocksPending < MaxPending
        /\ blocks' = r.st.blocks
        /\ pendingBlocks' = r.st.pendingBlocks
        /\ lastBlock' = r.st.lastBlock
        /\ lastConfirmedBlock' = r.st.lastConfirmedBlock
        /\ lastCall' = [op |-> "receiveBlock", outcome |-> r.outcome,
                        ret |-> IF r.ret = NoBlock THEN <<>> ELSE BlockId(r.ret),
                        sent |-> r.sent]

Next ==
    \/ SetGenesisBlock(Genesis) /\ UNCHANGED <<blockVars, delivered, netVars>>
    \/ /\ BlocksStored < MaxBlocks
       /\ \E o \in WireInputs :
             ReceiveBlock(o) /\ UNCHANGED <<blockVars, delivered, netVars>>

Spec == ClientInit /\ [][Next]_vars

-----------------------------------------------------------------------------
(* A tree of valid blocks handed to one client in any order (SpecTree)     *)

MaxWaiting == 4     \* orphans the client holds while the tree is handed over

\* Valid blocks on top of the genesis: mined, with the chainLength of their
\* place and transactions that replay.  A1 has two children, B1 is a fork.
TreeA1 == Mined(WireBlock(BlockId(Genesis), 1, <<Entry(T0)>>, "m1"))
TreeA2 == Mined(WireBlock(BlockId(deserialize(TreeA1)), 2, <<Entry(T1)>>, "m1"))
TreeA2b == Mined(WireBlock(BlockId(deserialize(TreeA1)), 2, <<>>, "m1"))
TreeA3 == Mined(WireBlock(BlockId(deserialize(TreeA2)), 3, <<>>, "m1"))
TreeB1 == Mined(WireBlock(BlockId(Genesis), 1, <<>>, "m1"))

TreeBlocks == {TreeA1, TreeA2, TreeA2b, TreeA3, TreeB1}

\* The sets of blocks that hold the parent of each of their blocks, the
\* genesis apart: the trees rooted at the genesis.
Trees ==
    { S \in SUBSET TreeBlocks :
        \A o \in S : \/ o.prevBlockHash = BlockId(Genesis)
                     \/ \E p \in S : o.prevBlockHash = BlockId(deserialize(p)) }

\* The depth of a tree: the largest chainLength in it, 0 for the genesis alone.
Depth(S) ==
    IF S = {} THEN 0
    ELSE CHOOSE d \in 0..Cardinality(S) :
            /\ \E o \in S : o.chainLength = d
            /\ \A o \in S : o.chainLength <= d

\* new Client({net, startingBlock: genesis}), and the tree to hand over.
TreeInit ==
    /\ blocks = MapSet(EmptyMap, BlockId(Genesis), Genesis)
    /\ pendingBlocks = EmptyMap
    /\ lastBlock = Genesis
    /\ lastConfirmedBlock = Genesis
    /\ lastCall = [op |-> "setGenesisBlock", outcome |-> "", ret |-> <<>>, sent |-> <<>>]
    /\ \E S \in Trees : delivered = [tree |-> S, passed |-> {}]
    /\ chain = <<Genesis>>
    /\ lastOp = [op |-> "init", tx |-> NoTx, ok |-> TRUE, pre |-> Genesis, reruns |-> 0]
    /\ heap = NoHeap
    /\ NetIdle

\* client.receiveBlock(o) for a block o of the tree, passed before or not.
TreeReceive(o) ==
    /\ \E r \in {receiveBlock(Here, deserialize(o))} :
        /\ r.outcome = "missing parent" => BlocksPending < MaxWaiting
        /\ blocks' = r.st.blocks
        /\ pendingBlocks' = r.st.pendingBlocks
        /\ lastBlock' = r.st.lastBlock
        /\ lastConfirmedBlock' = r.st.lastConfirmedBlock
        /\ lastCall' = [op |-> "receiveBlock", outcome |-> r.outcome,
                        ret |-> IF r.ret = NoBlock THEN <<>> ELSE BlockId(r.ret),
                        sent |-> r.sent]
    /\ delivered' = [delivered EXCEPT !.passed = @ \cup {o}]

TreeNext ==
    \E o \in delivered.tree : TreeReceive(o) /\ UNCHANGED <<blockVars, netVars>>

SpecTree == TreeInit /\ [][TreeNext]_vars

-----------------------------------------------------------------------------
(* Two branches deeper than CONFIRMED_DEPTH handed to one client (SpecFork) *)

BranchA == 7        \* blocks of the first branch: its first block gets confirmed
BranchB == 8        \* blocks of the second branch: longer than the first
MaxForkWaiting == 1 \* orphans the client holds while the branches are handed over

\* k valid blocks in a row on top of the block with id prevId, the first at
\* height n: mined, without transactions, with the chainLength of their place.
RECURSIVE Branch(_, _, _, _)
Branch(prevId, n, k, rewardAddr) ==
    IF k = 0 THEN <<>>
    ELSE <<Mined(WireBlock(prevId, n, <<>>, rewardAddr))>>
            \o Branch(BlockId(deserialize(Mined(WireBlock(prevId, n, <<>>, rewardAddr)))),
                      n + 1, k - 1, rewardAddr)

ForkBlocks ==
    Range(Branch(BlockId(Genesis), 1, BranchA, "m1"))
        \cup Range(Branch(BlockId(Genesis), 1, BranchB, "m2"))

\* new Client({net, startingBlock: genesis}), and the two branches to hand over.
ForkInit ==
    /\ blocks = MapSet(EmptyMap, BlockId(Genesis), Genesis)
    /\ pendingBlocks = EmptyMap
    /\ lastBlock = Genesis
    /\ lastConfirmedBlock = Genesis
    /\ lastCall = [op |-> "setGenesisBlock", outcome |-> "", ret |-> <<>>, sent |-> <<>>]
    /\ delivered = [tree |-> ForkBlocks, passed |-> {}]
    /\ chain = <<Genesis>>
    /\ lastOp = [op |-> "none"]
    /\ heap = NoHeap
    /\ NetIdle

\* client.receiveBlock(o) for a block o of the branches.
ForkReceive(o) ==
    /\ o.prevBlockHash \in DOMAIN blocks \/ BlocksPending < MaxForkWaiting
    /\ \E r \in {receiveBlock(Here, deserialize(o))} :
        /\ blocks' = r.st.blocks
        /\ pendingBlocks' = r.st.pendingBlocks
        /\ lastBlock' = r.st.lastBlock
        /\ lastConfirmedBlock' = r.st.lastConfirmedBlock
        /\ lastCall' = [op |-> "receiveBlock", outcome |-> r.outcome,
                        ret |-> IF r.ret = NoBlock THEN <<>> ELSE BlockId(r.ret),
                        sent |-> r.sent]
    /\ delivered' = [delivered EXCEPT !.passed = @ \cup {o}]

ForkNext ==
    \E o \in delivered.tree : ForkReceive(o) /\ UNCHANGED <<blockVars, netVars>>

SpecFork == ForkInit /\ [][ForkNext]_vars

-----------------------------------------------------------------------------
(* Miners on a FakeNet (SpecNet)                                           *)

MaxMined == 2       \* blocks one miner seals before it stops mining
MaxPosts == 2       \* transactions one participant posts

\* The participants, named by their addresses; each owns the key of its address.
Participants == {"a1", "a2"}

KeyOf(a) == IF a = "a1" THEN "k1" ELSE "k2"

\* The numbers of proofs a miner tries in one burst (miningRounds).
MiningRounds == {1, 2}

\* What postTransaction is called with: outputs and fee.
PayTwo == <<[amount |-> 2, address |-> "a2"]>>

Orders == { [outputs |-> PayTwo, fee |-> 1], [outputs |-> PayFive, fee |-> 0] }

\* The state one task works on: the participants, FakeNet.clients, the timer
\* queue, and what the task has done so far: the messages it gave to
\* FakeNet.sendMessage (sent), the message handlers run (handled), whether it
\* threw, and the block findProof sealed, if any.
World(ns, cs, ts) ==
    [nodes |-> ns, clients |-> cs, timers |-> ts,
     sent |-> <<>>, handled |-> 0, threw |-> FALSE, sealed |-> NoBlock]

\* setTimeout(callback, 0): the callback joins the queue.
setTimeout(W, to, msg, o) ==
    [W EXCEPT !.timers = Append(@, [to |-> to, msg |-> msg, payload |-> o])]

RECURSIVE Handle(_, _, _, _)

\* A mutant of sendMessage: the receiver's handler runs inside the call.
sendMessageSync(W, address, msg, o) ==
    IF \A i \in 1..Len(W.clients) : W.clients[i] # address
    THEN [W EXCEPT !.threw = TRUE]
    ELSE Handle([W EXCEPT !.sent = Append(@, [to |-> address, msg |-> msg, payload |-> o])],
                address, msg, o)

\* FakeNet.sendMessage: throws for an unknown client, else schedules the emit.
sendMessage(W, address, msg, o) ==
    IF \A i \in 1..Len(W.clients) : W.clients[i] # address
    THEN [W EXCEPT !.threw = TRUE]
    ELSE setTimeout([W EXCEPT !.sent = Append(@, [to |-> address, msg |-> msg, payload |-> o])],
                    address, msg, o)

\* FakeNet.broadcast: sendMessage to clients[i..], in the order of registration.
RECURSIVE broadcast(_, _, _, _)
broadcast(W, msg, o, i) ==
    IF i > Len(W.clients) THEN W
    ELSE broadcast(sendMessage(W, W.clients[i], msg, o), msg, o, i + 1)

\* FakeNet.register(client)
register(W, a) == [W EXCEPT !.clients = Append(@, a)]

\* The Client fields of a participant, and a participant with them replaced.
ClientOf(n) == ClientState(n.blocks, n.pendingBlocks, n.lastBlock, n.lastConfirmedBlock)

WithClient(n, st) ==
    [n EXCEPT !.blocks = st.blocks, !.pendingBlocks = st.pendingBlocks,
              !.lastBlock = st.lastBlock, !.lastConfirmedBlock = st.lastConfirmedBlock]

\* The MISSING_BLOCK broadcasts of one receiveBlock call, msgs[i..], sent by a.
RECURSIVE BroadcastRequests(_, _, _, _)
BroadcastRequests(W, a, msgs, i) ==
    IF i > Len(msgs) THEN W
    ELSE BroadcastRequests(
             broadcast(W, "MISSING_BLOCK", [from |-> a, missing |-> msgs[i].missing], 1),
             a, msgs, i + 1)

\* What Client.receiveBlock leaves at participant a, r the outcome of the
\* call on a's fields: [W, ret]
ClientReceived(W, a, r) ==
    [W |-> BroadcastRequests([W EXCEPT !.nodes[a] = WithClient(@, r.st)], a, r.sent, 1),
     ret |-> r.ret]

\* Client.receiveBlock of participant a: [W, ret]
ClientReceiveBlock(W, a, block) ==
    ClientReceived(W, a, receiveBlock(ClientOf(W.nodes[a]), block))

\* The candidate of Miner.startNewSearch: new Block(address, lastBlock), proof 0.
Candidate(n) ==
    IF n.lastBlock = NoBlock
    THEN [NewGenesisBlock(n.address, HIT_POW_TARGET, COINBASE_AMT_ALLOWED) EXCEPT !.proof = 0]
    ELSE [NewBlock(n.address, n.lastBlock, HIT_POW_TARGET, COINBASE_AMT_ALLOWED)
              EXCEPT !.proof = 0]

\* Miner.startNewSearch
startNewSearch(W, a) == [W EXCEPT !.nodes[a].currentBlock = Candidate(W.nodes[a])]

\* Miner.receiveBlock: this.currentBlock && b.chainLength > this.currentBlock.chainLength
CutOver(b, currentBlock) == b.chainLength > currentBlock.chainLength

\* A mutant of MinerReceived: the miner starts a new search whatever
\* super.receiveBlock returned.
MinerReceivedRestarting(r, a) == startNewSearch(r.W, a)

\* Miner.receiveBlock after super.receiveBlock returned r = [W, ret].
MinerReceived(r, a) ==
    IF r.ret = NoBlock THEN r.W
    ELSE IF CutOver(r.ret, r.W.nodes[a].currentBlock) THEN startNewSearch(r.W, a)
    ELSE r.W

\* Miner.receiveBlock
MinerReceiveBlock(W, a, block) == MinerReceived(ClientReceiveBlock(W, a, block), a)

\* A mutant of announceProof: the block is announced with its proof moved on.
announceProofMovedOn(W, a) ==
    broadcast(W, "PROOF_FOUND", serialize([W.nodes[a].currentBlock EXCEPT !.proof = @ + 1]), 1)

\* Miner.announceProof
announceProof(W, a) == broadcast(W, "PROOF_FOUND", serialize(W.nodes[a].currentBlock), 1)

\* The loop of findProof: the block with the first valid proof below
\* pausePoint, or with proof = pausePoint.
RECURSIVE SearchProof(_, _)
SearchProof(b, pausePoint) ==
    IF ~(b.proof < pausePoint) THEN b
    ELSE IF hasValidProof(b) THEN b
    ELSE SearchProof([b EXCEPT !.proof = @ + 1], pausePoint)

\* A mutant of FoundProof: the miner stores the sealed block as it built it,
\* without receiveBlock.
FoundProofUnverified(W, a) ==
    startNewSearch(
        [announceProof([W EXCEPT !.sealed = W.nodes[a].currentBlock], a)
            EXCEPT !.nodes[a].blocks =
                       MapSet(@, BlockId(W.nodes[a].currentBlock), W.nodes[a].currentBlock),
                   !.nodes[a].lastBlock =
                       IF @ = NoBlock THEN @
                       ELSE IF IsBetter(@, W.nodes[a].currentBlock)
                       THEN W.nodes[a].currentBlock ELSE @],
        a)

\* A mutant of FoundProof: the miner goes on with the sealed block as its
\* candidate, without startNewSearch.
FoundProofKeeping(W, a) ==
    MinerReceiveBlock(announceProof([W EXCEPT !.sealed = W.nodes[a].currentBlock], a),
                      a, W.nodes[a].currentBlock)

\* A mutant of FoundProof: the sealed block is announced but not received.
FoundProofForgetting(W, a) ==
    startNewSearch(announceProof([W EXCEPT !.sealed = W.nodes[a].currentBlock], a), a)

\* findProof where currentBlock has a valid proof: announceProof,
\* receiveBlock(currentBlock), startNewSearch.
FoundProof(W, a) ==
    startNewSearch(
        MinerReceiveBlock(announceProof([W EXCEPT !.sealed = W.nodes[a].currentBlock], a),
                          a, W.nodes[a].currentBlock),
        a)

\* A mutant of Searched: the next burst is scheduled twice.
SearchedTwice(W, a, pausePoint) ==
    IF W.nodes[a].currentBlock.proof < pausePoint
    THEN setTimeout(setTimeout([FoundProof(W, a) EXCEPT !.nodes[a].mined = @ + 1],
                               a, "START_MINING", <<>>),
                    a, "START_MINING", <<>>)
    ELSE setTimeout(setTimeout(W, a, "START_MINING", <<>>), a, "START_MINING", <<>>)

\* findProof after its loop: a valid proof was found if the loop stopped
\* below pausePoint; the next burst is scheduled.
Searched(W, a, pausePoint) ==
    IF W.nodes[a].currentBlock.proof < pausePoint
    THEN setTimeout([FoundProof(W, a) EXCEPT !.nodes[a].mined = @ + 1],
                    a, "START_MINING", <<>>)
    ELSE setTimeout(W, a, "START_MINING", <<>>)

\* Miner.findProof(), as the START_MINING listener calls it (oneAndDone false).
\* A miner that has sealed MaxMined blocks stops.
findProof(W, a) ==
    IF ~(W.nodes[a].mined < MaxMined) THEN W
    ELSE Searched([W EXCEPT !.nodes[a].currentBlock =
                       SearchProof(@, @.proof + W.nodes[a].miningRounds)],
                  a, W.nodes[a].currentBlock.proof + W.nodes[a].miningRounds)

\* Miner.initialize: the listeners are added, START_MINING is emitted at once.
initialize(W, a) ==
    findProof([startNewSearch(W, a) EXCEPT !.nodes[a].initialized = TRUE], a)

\* Miner.addTransaction, the POST_TRANSACTION listener.
MinerAddTransaction(W, a, tx) ==
    [W EXCEPT !.nodes[a].currentBlock = addTransaction(@, tx).b]

\* A mutant of provideMissingBlock: the block is broadcast.
provideMissingBlockToAll(W, a, o) ==
    IF o.missing \in DOMAIN W.nodes[a].blocks
    THEN broadcast(W, "PROOF_FOUND", serialize(W.nodes[a].blocks[o.missing]), 1)
    ELSE W

\* Client.provideMissingBlock(msg), o the parsed message.
provideMissingBlock(W, a, o) ==
    IF o.missing \in DOMAIN W.nodes[a].blocks
    THEN sendMessage(W, o.from, "PROOF_FOUND", serialize(W.nodes[a].blocks[o.missing]))
    ELSE W

\* get confirmedBalance / availableGold; lastConfirmedBlock is set.
confirmedBalance(n) == balanceOf(n.lastConfirmedBlock, n.address)

availableGold(n) == confirmedBalance(n) - n.pendingSpent

\* The transaction postTransaction makes and signs.
PostedTx(n, outputs, fee) ==
    TxSign(Transaction(n.address, n.nonce, n.key, NoSig, outputs, fee), n.key)

\* A mutant of postTransaction: the nonce is taken before the funds are checked.
postTransactionEager(W, a, outputs, fee) ==
    IF W.nodes[a].lastConfirmedBlock = NoBlock
    THEN [W EXCEPT !.threw = TRUE, !.nodes[a].nonce = @ + 1]
    ELSE IF SumAmounts(outputs) + fee > availableGold(W.nodes[a])
    THEN [W EXCEPT !.threw = TRUE, !.nodes[a].nonce = @ + 1]
    ELSE broadcast([W EXCEPT !.nodes[a].nonce = @ + 1,
                             !.nodes[a].posted = Append(@, PostedTx(W.nodes[a], outputs, fee))],
                   "POST_TRANSACTION", PostedTx(W.nodes[a], outputs, fee), 1)

\* A mutant of postTransaction: the nonce is not incremented.
postTransactionRepeating(W, a, outputs, fee) ==
    IF W.nodes[a].lastConfirmedBlock = NoBlock THEN [W EXCEPT !.threw = TRUE]
    ELSE IF SumAmounts(outputs) + fee > availableGold(W.nodes[a])
    THEN [W EXCEPT !.threw = TRUE]
    ELSE broadcast([W EXCEPT !.nodes[a].posted = Append(@, PostedTx(W.nodes[a], outputs, fee))],
                   "POST_TRANSACTION", PostedTx(W.nodes[a], outputs, fee), 1)

\* Client.postTransaction(outputs, fee).  Reading confirmedBalance without a
\* lastConfirmedBlock throws too.  posted is the history of what was posted.
postTransaction(W, a, outputs, fee) ==
    IF W.nodes[a].lastConfirmedBlock = NoBlock THEN [W EXCEPT !.threw = TRUE]
    ELSE IF SumAmounts(outputs) + fee > availableGold(W.nodes[a])
    THEN [W EXCEPT !.threw = TRUE]
    ELSE broadcast([W EXCEPT !.nodes[a].nonce = @ + 1,
                             !.nodes[a].posted = Append(@, PostedTx(W.nodes[a], outputs, fee))],
                   "POST_TRANSACTION", PostedTx(W.nodes[a], outputs, fee), 1)

\* client.emit(msg, o): the listeners of participant a for msg.
Handled(W, a, msg, o) ==
    CASE msg = "PROOF_FOUND" -> MinerReceiveBlock(W, a, deserialize(o))
      [] msg = "MISSING_BLOCK" -> provideMissingBlock(W, a, o)
      [] msg = "START_MINING" ->
            IF W.nodes[a].initialized THEN findProof(W, a) ELSE W
      [] msg = "POST_TRANSACTION" ->
            IF W.nodes[a].initialized THEN MinerAddTransaction(W, a, o) ELSE W

Handle(W, a, msg, o) == Handled([W EXCEPT !.handled = @ + 1], a, msg, o)

\* new Miner({net, startingBlock, miningRounds}); startingBlock may be left out.
NewMiner(a, startingBlock, miningRounds) ==
    LET first == IF startingBlock = NoBlock
                 THEN NewGenesisBlock(a, HIT_POW_TARGET, COINBASE_AMT_ALLOWED)
                 ELSE NewBlock(a, startingBlock, HIT_POW_TARGET, COINBASE_AMT_ALLOWED)
    IN  [address |-> a, key |-> KeyOf(a), nonce |-> 0, pendingSpent |-> 0,
         blocks |-> IF startingBlock = NoBlock THEN EmptyMap
                    ELSE MapSet(EmptyMap, BlockId(startingBlock), startingBlock),
         pendingBlocks |-> EmptyMap,
         lastBlock |-> startingBlock, lastConfirmedBlock |-> startingBlock,
         miningRounds |-> miningRounds, currentBlock |-> [first EXCEPT !.proof = 0],
         initialized |-> FALSE, mined |-> 0, posted |-> <<>>]

NoRun ==
    [task |-> "new", node |-> "", msg |-> "", payload |-> <<>>, sent |-> <<>>,
     handled |-> 0, threw |-> FALSE, sealed |-> NoBlock, total |-> 0]

\* Two miners are constructed, each with the genesis block or without a
\* starting block; nobody is registered with the FakeNet yet.
NetInit ==
    /\ \E g \in [Participants -> {Genesis, NoBlock}], r \in [Participants -> MiningRounds] :
          nodes = [a \in Participants |-> NewMiner(a, g[a], r[a])]
    /\ clients = <<>>
    /\ timers = <<>>
    /\ lastRun = NoRun
    /\ turn = [kind |-> "new", n |-> 0]
    /\ chain = <<Genesis>>
    /\ lastOp = [op |-> "init", tx |-> NoTx, ok |-> TRUE, pre |-> Genesis, reruns |-> 0]
    /\ heap = NoHeap
    /\ blocks = EmptyMap
    /\ pendingBlocks = EmptyMap
    /\ lastBlock = NoBlock
    /\ lastConfirmedBlock = NoBlock
    /\ lastCall = [op |-> "new", outcome |-> "", ret |-> <<>>, sent |-> <<>>]
    /\ delivered = [tree |-> {}, passed |-> {}]

\* The state a task leaves, and the record of the task.
Leaves(W, task, a, msg, o, total) ==
    /\ nodes' = W.nodes
    /\ clients' = W.clients
    /\ timers' = W.timers
    /\ lastRun' = [task |-> task, node |-> a, msg |-> msg, payload |-> o, sent |-> W.sent,
                   handled |-> W.handled, threw |-> W.threw, sealed |-> W.sealed,
                   total |-> total]
    /\ turn' = [kind |-> task, n |-> 1 - turn.n]

Registered(a) == \E i \in 1..Len(clients) : clients[i] = a

\* fakeNet.register(miner); miner.initialize()
Register(a) ==
    /\ ~Registered(a)
    /\ \E W \in {initialize(register(World(nodes, clients, timers), a), a)} :
          Leaves(W, "register", a, "", <<>>, 0)

\* participant.postTransaction(outputs, fee), called from outside
PostTransaction(a, order) ==
    /\ Registered(a)
    /\ nodes[a].nonce < MaxPosts
    /\ \E W \in {postTransaction(World(nodes, clients, timers), a, order.outputs, order.fee)} :
          Leaves(W, "postTransaction", a, "", <<>>, SumAmounts(order.outputs) + order.fee)

\* The event loop runs the oldest timer callback.
RunTimer ==
    /\ timers # <<>>
    /\ \E W \in {Handle(World(nodes, clients, Tail(timers)),
                        Head(timers).to, Head(timers).msg, Head(timers).payload)} :
          Leaves(W, "timer", Head(timers).to, Head(timers).msg, Head(timers).payload, 0)

NetNext ==
    \/ \E a \in Participants : Register(a) /\ UNCHANGED <<blockVars, clientVars, delivered>>
    \/ \E a \in Participants, order \in Orders :
          PostTransaction(a, order) /\ UNCHANGED <<blockVars, clientVars, delivered>>
    \/ RunTimer /\ UNCHANGED <<blockVars, clientVars, delivered>>

SpecNet == NetInit /\ [][NetNext]_vars

\* The event loop takes a turn for a timer callback.  RunTimer is enabled
\* exactly when timers is not empty, every task changes turn, and the steps
\* that make turn.kind "timer" are the RunTimer steps: for the behaviours of
\* SpecNet, WF_turn(TimerTurn) is WF_vars(RunTimer).
TimerTurn == timers # <<>> /\ turn' = [kind |-> "timer", n |-> 1 - turn.n]

\* The event loop runs every callback that is scheduled.
SpecNetFair == SpecNet /\ WF_turn(TimerTurn)

-----------------------------------------------------------------------------
(* Properties of Block.addTransaction and Block.rerun (SpecBlock)          *)

\* The sum of the amounts of the outputs of tx that go to addr.
AmountsTo(tx, addr) ==
    LET upTo[i \in 0..Len(tx.outputs)] ==
            IF i = 0 THEN 0
            ELSE upTo[i - 1]
                 + (IF tx.outputs[i].address = addr THEN tx.outputs[i].amount ELSE 0)
    IN  upTo[Len(tx.outputs)]

OutputAddresses(tx) == { tx.outputs[i].address : i \in 1..Len(tx.outputs) }

AllAmounts(tx) ==
    LET upTo[i \in 0..Len(tx.outputs)] ==
            IF i = 0 THEN 0 ELSE upTo[i - 1] + tx.outputs[i].amount
    IN  upTo[Len(tx.outputs)]

\* The conditions under which the claim says addTransaction(b, tx) returns true.
Admissible(b, tx) ==
    /\ \A i \in 1..Len(b.transactions) : b.transactions[i].key # TxId(tx)
    /\ tx.sig # NoSig
    /\ tx.sig = [signer |-> tx.pubKey, msg |-> TxId(tx)]
    /\ tx.from = calcAddress(tx.pubKey)
    /\ tx.from \in DOMAIN b.balances
    /\ b.balances[tx.from] >= tx.fee + AllAmounts(tx)
    /\ tx.nonce = (IF tx.from \in DOMAIN b.nextNonce THEN b.nextNonce[tx.from] ELSE 0)

\* C2: addTransaction(tx) returns true exactly when tx.id is not yet in the
\* block, tx is validly signed by the key of its from address, balances has an
\* entry for tx.from that covers fee + outputs, and tx.nonce is the next
\* nonce of tx.from (0 when absent); and then tx is appended, the next nonce
\* of tx.from is nonce + 1, tx.from is lowered by fee + outputs and every
\* output address is raised by its amounts, everything else being kept.
AddTransactionContract ==
    lastOp.op = "add" =>
        LET b == lastOp.pre
            tx == lastOp.tx
            after == Tip
        IN  /\ lastOp.ok = Admissible(b, tx)
            /\ lastOp.ok =>
                /\ after.transactions = Append(b.transactions, [key |-> TxId(tx), tx |-> tx])
                /\ DOMAIN after.nextNonce = DOMAIN b.nextNonce \cup {tx.from}
                /\ \A a \in DOMAIN after.nextNonce :
                      after.nextNonce[a] = IF a = tx.from THEN tx.nonce + 1 ELSE b.nextNonce[a]
                /\ DOMAIN after.balances = DOMAIN b.balances \cup OutputAddresses(tx)
                /\ \A a \in DOMAIN after.balances :
                      after.balances[a] =
                          (IF a \in DOMAIN b.balances THEN b.balances[a] ELSE 0)
                          - (IF a = tx.from THEN tx.fee + AllAmounts(tx) ELSE 0)
                          + AmountsTo(tx, a)

\* A transaction that spends the whole balance and pays its sender back was admitted.
AddTransactionAdmitted ==
    /\ lastOp.op = "add" /\ lastOp.ok
    /\ Len(lastOp.tx.outputs) = 2
    /\ lastOp.pre.balances[lastOp.tx.from] = lastOp.tx.fee + AllAmounts(lastOp.tx)

\* C3: when addTransaction returns false, the block's transactions, balances
\* and nextNonce are what they were before the call.
RejectionChangesNothing ==
    (lastOp.op = "add" /\ ~lastOp.ok) =>
        /\ Tip.transactions = lastOp.pre.transactions
        /\ Tip.balances = lastOp.pre.balances
        /\ Tip.nextNonce = lastOp.pre.nextNonce

\* A validly signed, affordable transaction was rejected for its nonce alone,
\* by a block that holds a transaction already.
RejectedForNonce ==
    /\ lastOp.op = "add" /\ ~lastOp.ok
    /\ validSignature(lastOp.tx)
    /\ sufficientFunds(lastOp.tx, lastOp.pre.balances)
    /\ ~TxMapHas(lastOp.pre.transactions, TxId(lastOp.tx))
    /\ Len(lastOp.pre.transactions) > 0

\* C10: for a block made by new Block(addr, P) and addTransaction calls only,
\* rerun(P) returns true and leaves balances and nextNonce as they were.
RerunAgreesWithConstruction ==
    (lastOp.op = "rerun" /\ lastOp.reruns = 1) =>
        /\ lastOp.ok
        /\ Tip.balances = lastOp.pre.balances
        /\ Tip.nextNonce = lastOp.pre.nextNonce

\* C11: for every block B, with or without a proof, deserialize(serialize(B))
\* has the serialized form, the hash and the transactions (in order) of B, and
\* a successful rerun(P) on the copy keeps that hash and yields B's balances.
RoundTripKeepsBlock ==
    lastOp.op = "roundtrip" =>
        LET B == lastOp.pre
            b2 == lastOp.copy
        IN  /\ serialize(b2) = serialize(B)
            /\ hashVal(b2) = hashVal(B)
            /\ b2.transactions = B.transactions
            /\ lastOp.ok =>
                  /\ hashVal(lastOp.rerunCopy) = hashVal(B)
                  /\ lastOp.rerunCopy.balances = B.balances

-----------------------------------------------------------------------------
(* Properties of Client.receiveBlock (Spec)                                *)

ParentOf(b) == MapGet(blocks, b.prevBlockHash, NoBlock)

\* b and the stored blocks reached from b by following prevBlockHash.
RECURSIVE AncestorsOrSelf(_)
AncestorsOrSelf(b) == IF b = NoBlock THEN {} ELSE {b} \cup AncestorsOrSelf(ParentOf(b))

\* The transactions of the chain that ends in b, the oldest first.
RECURSIVE ChainTxs(_)
ChainTxs(b) ==
    IF b = NoBlock THEN <<>>
    ELSE ChainTxs(ParentOf(b)) \o [i \in 1..Len(b.transactions) |-> b.transactions[i].tx]

\* C1: along the chain from any stored block back to the genesis no two
\* transactions have the same (from, nonce), and a transaction of a stored
\* block B is rejected by addTransaction on a new block on top of B or of
\* any stored descendant of B.
ReplayPrevention ==
    \A b \in StoredBlocks :
        /\ \A i, j \in 1..Len(ChainTxs(b)) :
              (ChainTxs(b)[i].from = ChainTxs(b)[j].from
                  /\ ChainTxs(b)[i].nonce = ChainTxs(b)[j].nonce) => i = j
        /\ \A i \in 1..Len(ChainTxs(b)) :
              ~addTransaction(NewBlock("m1", b, HIT_POW_TARGET, COINBASE_AMT_ALLOWED),
                              ChainTxs(b)[i]).ok

\* A stored block with a transaction on top of a stored block with a
\* transaction of the same sender.
ChainOfTwoPayments ==
    \E b \in StoredBlocks :
        /\ Len(b.transactions) > 0
        /\ ParentOf(b) # NoBlock
        /\ Len(ParentOf(b).transactions) > 0
        /\ b.transactions[1].tx.from = ParentOf(b).transactions[1].tx.from

\* The balances a replay of b starts from: the parent's, plus the parent's reward.
ReplayStart(p) ==
    [a \in DOMAIN p.balances \cup {p.rewardAddr} |->
        (IF a \in DOMAIN p.balances THEN p.balances[a] ELSE 0)
        + (IF a = p.rewardAddr
           THEN p.coinbaseReward
                + (LET fees[i \in 0..Len(p.transactions)] ==
                          IF i = 0 THEN 0 ELSE fees[i - 1] + p.transactions[i].tx.fee
                   IN  fees[Len(p.transactions)])
           ELSE 0)]

\* The block after tx is applied to it as the specification describes.
Applied(b, tx) ==
    [b EXCEPT
        !.transactions = Append(b.transactions, [key |-> TxId(tx), tx |-> tx]),
        !.nextNonce = [a \in DOMAIN b.nextNonce \cup {tx.from} |->
                          IF a = tx.from THEN tx.nonce + 1 ELSE b.nextNonce[a]],
        !.balances = [a \in DOMAIN b.balances \cup OutputAddresses(tx) |->
                          (IF a \in DOMAIN b.balances THEN b.balances[a] ELSE 0)
                          - (IF a = tx.from THEN tx.fee + AllAmounts(tx) ELSE 0)
                          + AmountsTo(tx, a)]]

\* Every transaction of txs[i..] is admitted in turn, starting from block b.
RECURSIVE AllAdmitted(_, _, _)
AllAdmitted(b, txs, i) ==
    IF i > Len(txs) THEN TRUE
    ELSE Admissible(b, txs[i].tx) /\ AllAdmitted(Applied(b, txs[i].tx), txs, i + 1)

\* Replaying the transactions of block in their order from the state derived
\* from parent p admits every one of them.
Replays(block, p) ==
    AllAdmitted([block EXCEPT !.balances = ReplayStart(p), !.nextNonce = p.nextNonce,
                              !.transactions = <<>>],
                block.transactions, 1)

Received == { b \in StoredBlocks : ~isGenesisBlock(b) } \cup PendingSet

\* C5: receiveBlock of a block whose hash is not below its target returns
\* null, broadcasts nothing and changes nothing, whether or not its parent is
\* known; hence no block with an invalid proof is stored or queued.
InvalidProofNeverKept ==
    /\ \A o \in WireInputs :
          LET block == deserialize(o)
              r == receiveBlock(Here, block)
          IN  ~hasValidProof(block) => r.ret = NoBlock /\ r.st = Here /\ r.sent = <<>>
    /\ \A b \in Received : hasValidProof(b)

\* C15: receiveBlock broadcasts MISSING_BLOCK for a parent id h exactly when
\* it queues the first orphan waiting on h (one request, naming h); an orphan
\* whose parent id is a key of pendingBlocks already is appended to the
\* waiting blocks without any broadcast; no other call broadcasts.
OneRequestPerMissingParent ==
    [][lastCall'.op = "receiveBlock" =>
        LET new == DOMAIN pendingBlocks' \ DOMAIN pendingBlocks
            grown == { h \in DOMAIN pendingBlocks' \cap DOMAIN pendingBlocks :
                         pendingBlocks'[h] # pendingBlocks[h] }
        IN  /\ Cardinality(new) <= 1
            /\ \A h \in new :
                  /\ Len(pendingBlocks'[h]) = 1
                  /\ lastCall'.outcome = "missing parent"
                  /\ lastCall'.sent = <<[type |-> "MISSING_BLOCK", from |-> ClientAddress,
                                         missing |-> h]>>
            /\ new = {} => lastCall'.sent = <<>>
            /\ \A h \in grown :
                  /\ lastCall'.outcome = "missing parent"
                  /\ Len(pendingBlocks'[h]) = Len(pendingBlocks[h]) + 1
                  /\ \A i \in 1..Len(pendingBlocks[h]) :
                        pendingBlocks'[h][i] = pendingBlocks[h][i]
            /\ lastCall'.outcome = "missing parent" => Cardinality(new \cup grown) = 1]_vars

\* A second orphan joined the blocks waiting for a parent, without a broadcast.
SecondOrphanQueued ==
    /\ lastCall.op = "receiveBlock"
    /\ lastCall.outcome = "missing parent"
    /\ lastCall.sent = <<>>
    /\ \E h \in DOMAIN pendingBlocks : Len(pendingBlocks[h]) >= 2

\* C13: once every block of a tree of valid blocks rooted at the genesis has
\* been passed to receiveBlock, in whatever order and however often, blocks
\* holds every block of the tree, pendingBlocks is empty and
\* lastBlock.chainLength is the depth of the tree.
ReorderingTolerance ==
    delivered.passed = delivered.tree =>
        /\ \A o \in delivered.tree :
              /\ BlockId(deserialize(o)) \in DOMAIN blocks
              /\ serialize(blocks[BlockId(deserialize(o))]) = o
        /\ DOMAIN pendingBlocks = {}
        /\ lastBlock.chainLength = Depth(delivered.tree)

\* The whole tree of five blocks was passed, the children before their
\* parents, and the last call released the orphans.
TreeHandedOverBackwards ==
    /\ delivered.tree = TreeBlocks
    /\ delivered.passed = delivered.tree
    /\ lastCall.op = "receiveBlock"
    /\ lastCall.outcome = "accepted"
    /\ lastCall.ret = BlockId(deserialize(TreeA1))
    /\ lastBlock.chainLength = 3

\* The blocks stored by the step: those under new ids, and the block returned.
StoredByCall ==
    { blocks'[k] : k \in (DOMAIN blocks' \ DOMAIN blocks) \cup {lastCall'.ret} }

AcceptStep ==
    /\ lastCall'.op = "receiveBlock"
    /\ lastCall'.outcome = "accepted"

\* C6 as stated: an accepted block B longer than lastBlock replaces it (by B
\* or, read generously, by something else), B becomes lastBlock only if it
\* is longer, and an accepted block that is not longer is stored and leaves
\* lastBlock and lastConfirmedBlock unchanged.
ForkChoiceOfAcceptedBlock ==
    [][AcceptStep =>
        LET B == blocks'[lastCall'.ret] IN
        IF B.chainLength > lastBlock.chainLength
        THEN lastBlock' # lastBlock
        ELSE lastBlock' = lastBlock /\ lastConfirmedBlock' = lastConfirmedBlock]_vars

\* C6 as amended: the rule holds as stated when no orphan waits for B; in
\* every case lastBlock afterwards is the old lastBlock or a block this call
\* stored (B or a released orphan), it changes exactly when this call stored
\* a longer block than the old lastBlock, and then no block this call stored
\* is longer than it; when lastBlock is kept, so is lastConfirmedBlock.
ForkChoiceWithOrphans ==
    [][AcceptStep =>
        LET B == blocks'[lastCall'.ret]
            longer == { b \in StoredByCall : b.chainLength > lastBlock.chainLength }
        IN  /\ lastCall'.ret \notin DOMAIN pendingBlocks =>
                  IF B.chainLength > lastBlock.chainLength
                  THEN lastBlock' = B
                  ELSE lastBlock' = lastBlock /\ lastConfirmedBlock' = lastConfirmedBlock
            /\ IF longer = {}
               THEN lastBlock' = lastBlock /\ lastConfirmedBlock' = lastConfirmedBlock
               ELSE /\ lastBlock' \in longer
                    /\ \A b \in StoredByCall : b.chainLength <= lastBlock'.chainLength]_vars

\* A block as long as lastBlock was accepted and lastBlock kept: a tie.
TieKeepsIncumbent ==
    /\ lastCall.op = "receiveBlock"
    /\ lastCall.outcome = "accepted"
    /\ lastCall.ret # BlockId(lastBlock)
    /\ blocks[lastCall.ret].chainLength = lastBlock.chainLength

AfterCall == lastCall.op \in {"setGenesisBlock", "receiveBlock"}

LastBlockIsLongest ==
    /\ lastBlock # NoBlock
    /\ BlockId(lastBlock) \in DOMAIN blocks
    /\ blocks[BlockId(lastBlock)] = lastBlock
    /\ \A b \in StoredBlocks : lastBlock.chainLength >= b.chainLength

\* C7 as stated: after every setGenesisBlock and receiveBlock call lastBlock
\* is a stored block and no stored block is longer.
LastBlockLongestAfterEveryCall == AfterCall => LastBlockIsLongest

\* C7 as amended: the same, once setGenesisBlock has been called (before
\* that, receiveBlock only queues orphans and lastBlock is undefined).
LastBlockLongestOnceGenesisSet ==
    (AfterCall /\ blocks # EmptyMap) => LastBlockIsLongest

\* A call released an orphan, and the store holds a fork.
OrphanReleasedInFork ==
    /\ lastCall.op = "receiveBlock"
    /\ lastCall.outcome = "accepted"
    /\ Cardinality(DOMAIN blocks) >= 4
    /\ \E b \in StoredBlocks :
          /\ b.prevBlockHash = lastCall.ret
          /\ BlockId(b) = BlockId(lastBlock)
    /\ \E b \in StoredBlocks : b \notin AncestorsOrSelf(lastBlock)

\* C8: once the genesis is set, lastConfirmedBlock is lastBlock or an
\* ancestor of it, with chainLength max(0, lastBlock.chainLength - 6).
ConfirmedSixBehind ==
    (AfterCall /\ lastBlock # NoBlock) =>
        /\ lastConfirmedBlock \in AncestorsOrSelf(lastBlock)
        /\ lastConfirmedBlock.chainLength =
              (IF lastBlock.chainLength - 6 < 0 THEN 0 ELSE lastBlock.chainLength - 6)

\* C9: every block receiveBlock stored has its parent stored and is one
\* longer than it, whatever chainLength it carried on the wire.
ChainLengthIsParentsPlusOne ==
    \A b \in StoredBlocks :
        ~isGenesisBlock(b) =>
            /\ ParentOf(b) # NoBlock
            /\ b.chainLength = ParentOf(b).chainLength + 1

-----------------------------------------------------------------------------
(* Properties of the miners on the FakeNet (SpecNet)                       *)

\* The step is the call lastRun' records.
PostStep == lastRun'.task = "postTransaction"

TimerStep(msg) == lastRun'.task = "timer" /\ lastRun'.msg = msg

\* C16: postTransaction with a total above availableGold throws and changes
\* nothing: no participant's field, the caller's nonce included, and nothing
\* is handed to the network.
InsufficientFundsNoEffect ==
    [][(/\ PostStep
        /\ nodes[lastRun'.node].lastConfirmedBlock # NoBlock
        /\ lastRun'.total > availableGold(nodes[lastRun'.node]))
       => (/\ lastRun'.threw
           /\ nodes' = nodes
           /\ timers' = timers
           /\ lastRun'.sent = <<>>)]_vars

\* A registered participant with a confirmed balance asked for more than it has.
ThrewForLackOfGold ==
    /\ lastRun.task = "postTransaction"
    /\ lastRun.threw
    /\ nodes[lastRun.node].lastConfirmedBlock # NoBlock
    /\ lastRun.total > availableGold(nodes[lastRun.node])
    /\ Len(clients) = 2

\* The ids of the transactions in the chain that ends in b, in n's blocks.
RECURSIVE ChainTxIds(_, _)
ChainTxIds(n, b) ==
    IF b = NoBlock THEN {}
    ELSE {b.transactions[i].key : i \in 1..Len(b.transactions)}
         \cup ChainTxIds(n, MapGet(n.blocks, b.prevBlockHash, NoBlock))

\* The totals of the transactions txs[i..] that n's lastConfirmedBlock does not confirm.
RECURSIVE UnconfirmedTotal(_, _, _)
UnconfirmedTotal(n, txs, i) ==
    IF i > Len(txs) THEN 0
    ELSE (IF TxId(txs[i]) \in ChainTxIds(n, n.lastConfirmedBlock) THEN 0
          ELSE totalOutput(txs[i]))
         + UnconfirmedTotal(n, txs, i + 1)

\* C17: the totals of a client's posted transactions that are not confirmed
\* yet never exceed its confirmedBalance.
PendingGoldUnavailable ==
    \A a \in Participants :
        nodes[a].lastConfirmedBlock # NoBlock =>
            UnconfirmedTotal(nodes[a], nodes[a].posted, 1) <= confirmedBalance(nodes[a])

\* The candidate of participant n is fresh: no transactions, proof 0, on top
\* of n's lastBlock.
FreshCandidate(n) ==
    /\ n.currentBlock.transactions = <<>>
    /\ n.currentBlock.proof = 0
    /\ n.lastBlock # NoBlock
    /\ n.currentBlock.prevBlockHash = BlockId(n.lastBlock)

\* C18: when the PROOF_FOUND handler of a miner, Miner.receiveBlock, gives
\* the miner a new lastBlock, the miner's currentBlock is a fresh candidate on
\* top of that lastBlock when the handler returns.
MinerCutsOver ==
    [][\A a \in Participants :
          (/\ TimerStep("PROOF_FOUND")
           /\ lastRun'.node = a
           /\ nodes'[a].lastBlock # nodes[a].lastBlock)
          => FreshCandidate(nodes'[a])]_vars

\* findProof found a valid proof in the step: lastRun' names the sealed block.
SealStep == lastRun'.sealed # NoBlock

\* What findProof leaves at miner a when it has sealed a block in the step:
\* every registered client is sent PROOF_FOUND with the block's serialization,
\* the block is in a's blocks, and a's candidate is fresh.
SealedAndReplaced(a) ==
    /\ hasValidProof(lastRun'.sealed)
    /\ \A i \in 1..Len(clients') :
          \E j \in 1..Len(lastRun'.sent) :
              lastRun'.sent[j] = [to |-> clients'[i], msg |-> "PROOF_FOUND",
                                  payload |-> serialize(lastRun'.sealed)]
    /\ BlockId(lastRun'.sealed) \in DOMAIN nodes'[a].blocks
    /\ FreshCandidate(nodes'[a])

AsynchronousDelivery ==
    /\ [](/\ lastRun.handled = (IF lastRun.task = "timer" THEN 1 ELSE 0)
          /\ Len(timers) >= Len(lastRun.sent)
          /\ \A i \in 1..Len(lastRun.sent) :
                \E j \in 1..Len(timers) : timers[j] = lastRun.sent[i])
    /\ [][\A b \in Participants : b # lastRun'.node => nodes'[b] = nodes[b]]_vars

\* A handler broadcast to both participants, its own included, and changed
\* its participant.
HandlerBroadcastToItself ==
    /\ lastRun.task = "timer"
    /\ Len(clients) = 2
    /\ Len(lastRun.sent) >= 2
    /\ \E i \in 1..Len(lastRun.sent) : lastRun.sent[i].to = lastRun.node
    /\ \E i \in 1..Len(lastRun.sent) : lastRun.sent[i].to # lastRun.node
    /\ lastRun.sealed # NoBlock

\* C12: two participants that hold a block with the same id hold equal
\* balances and equal nextNonce maps for it, whoever mined it and in
\* whatever order the blocks reached them.
DerivedStateDeterministic ==
    \A a \in Participants, b \in Participants :
        \A id \in DOMAIN nodes[a].blocks \cap DOMAIN nodes[b].blocks :
            /\ nodes[a].blocks[id].balances = nodes[b].blocks[id].balances
            /\ nodes[a].blocks[id].nextNonce = nodes[b].blocks[id].nextNonce

\* Both miners hold a block with a transaction that a1 mined and a2 received
\* serialized, and a1 holds a block of a fork that a2 mined.
MinedHereReceivedThere ==
    /\ \E id \in DOMAIN nodes["a1"].blocks \cap DOMAIN nodes["a2"].blocks :
          /\ nodes["a1"].blocks[id].rewardAddr = "a1"
          /\ Len(nodes["a1"].blocks[id].transactions) > 0
    /\ \E id \in DOMAIN nodes["a1"].blocks \cap DOMAIN nodes["a2"].blocks :
          nodes["a1"].blocks[id].rewardAddr = "a2"

\* provideMissingBlock answers the requester alone, with the serialized
\* block, and a participant that lacks the block sends nothing.
ProvideAnswersRequester ==
    [][TimerStep("MISSING_BLOCK") =>
          lastRun'.sent =
              (IF lastRun'.payload.missing \in DOMAIN nodes[lastRun'.node].blocks
               THEN <<[to |-> lastRun'.payload.from, msg |-> "PROOF_FOUND",
                       payload |-> serialize(nodes[lastRun'.node].blocks[
                                                 lastRun'.payload.missing])]>>
               ELSE <<>>)]_vars

\* Participant a waits for a parent that another registered participant stores.
WaitsForHeldBlock(a) ==
    \E h \in DOMAIN nodes[a].pendingBlocks :
        \E b \in Participants \ {a} : Registered(b) /\ h \in DOMAIN nodes[b].blocks

ReceiveStoredBlockIdempotent ==
    [][(/\ TimerStep("PROOF_FOUND")
        /\ BlockId(deserialize(lastRun'.payload)) \in DOMAIN nodes[lastRun'.node].blocks)
       => (/\ nodes' = nodes
           /\ lastRun'.sent = <<>>)]_vars

\* A miner got back the PROOF_FOUND of a block it sealed and stored, while
\* its candidate held a transaction.
OwnProofCameBack ==
    /\ lastRun.task = "timer"
    /\ lastRun.msg = "PROOF_FOUND"
    /\ deserialize(lastRun.payload).rewardAddr = lastRun.node
    /\ BlockId(deserialize(lastRun.payload)) \in DOMAIN nodes[lastRun.node].blocks
    /\ Len(nodes[lastRun.node].currentBlock.transactions) > 0

\* C22: between handlers no miner's currentBlock is a block of its blocks
\* (none has its id), and no task changes or removes a stored block.
StoredBlocksImmutable ==
    /\ [](\A a \in Participants :
             BlockId(nodes[a].currentBlock) \notin DOMAIN nodes[a].blocks)
    /\ [][\A a \in Participants :
             \A id \in DOMAIN nodes[a].blocks :
                 /\ id \in DOMAIN nodes'[a].blocks
                 /\ nodes'[a].blocks[id] = nodes[a].blocks[id]]_vars

\* A miner stores a block it sealed, and its candidate has since taken a
\* transaction and moved its proof on.
CandidateChangedAfterSeal ==
    \E a \in Participants :
        /\ \E id \in DOMAIN nodes[a].blocks : nodes[a].blocks[id].rewardAddr = a
        /\ Len(nodes[a].currentBlock.transactions) > 0
        /\ nodes[a].currentBlock.proof > 0

\* C23: an operation on a Block object (its construction from P, its
\* addTransaction, its rerun against P) leaves the balances and nextNonce
\* every other Block object reads, P's among them, as they were.
DerivedMapsIndependent ==
    [][\A j \in 1..Len(heap.objs) :
          j # heap'.last.obj =>
             /\ Load(heap', j).balances = Load(heap, j).balances
             /\ Load(heap', j).nextNonce = Load(heap, j).nextNonce]_vars

\* A child that took a transaction was rerun against its parent, and its
\* balances and nextNonce are not the parent's.
ChildRerunApartFromParent ==
    /\ heap.last.op = "rerun"
    /\ Len(heap.objs[heap.last.obj].b.transactions) > 0
    /\ Load(heap, heap.last.obj).balances
          # Load(heap, heap.objs[heap.last.obj].prev).balances
    /\ Load(heap, heap.last.obj).nextNonce
          # Load(heap, heap.objs[heap.last.obj].prev).nextNonce

\* The gold of a balances Map: the sum of its entries.
RECURSIVE SumBalances(_, _)
SumBalances(balances, addrs) ==
    IF addrs = {} THEN 0
    ELSE LET a == CHOOSE x \in addrs : TRUE
         IN  balances[a] + SumBalances(balances, addrs \ {a})

\* The gold of block b, given its parent's: the parent's, plus the parent's
\* rewards if reward is set, minus the fees of b's transactions.
SupplyOf(b, prevBlock, reward) ==
    SumBalances(prevBlock.balances, DOMAIN prevBlock.balances)
       + (IF reward THEN totalRewards(prevBlock) ELSE 0)
       - SumFees(b.transactions)

\* C24: every stored block with a stored parent holds the parent's gold, plus
\* the parent's rewards if the parent has a reward address, minus the fees of
\* its own transactions.
SupplyAccounting ==
    \A b \in StoredBlocks :
        ParentOf(b) # NoBlock =>
            SumBalances(b.balances, DOMAIN b.balances)
                = SupplyOf(b, ParentOf(b), ParentOf(b).rewardAddr # "")

\* C25: the transactions a participant has posted carry the nonces 0, 1, 2,
\* ... in the order of posting and its nonce is their number; a
\* postTransaction that does not throw sends one POST_TRANSACTION to each
\* registered client, all with the same transaction, from the participant,
\* signed by it and carrying the nonce it had, and leaves the nonce one
\* higher; nothing else changes a nonce.
NoncesInBroadcastOrder ==
    /\ [](\A a \in Participants :
             /\ nodes[a].nonce = Len(nodes[a].posted)
             /\ \A i \in 1..Len(nodes[a].posted) : nodes[a].posted[i].nonce = i - 1)
    /\ [][/\ (PostStep /\ ~lastRun'.threw) =>
                /\ nodes'[lastRun'.node].nonce = nodes[lastRun'.node].nonce + 1
                /\ Len(lastRun'.sent) = Len(clients)
                /\ \A i \in 1..Len(lastRun'.sent) :
                      /\ lastRun'.sent[i].to = clients[i]
                      /\ lastRun'.sent[i].msg = "POST_TRANSACTION"
                      /\ lastRun'.sent[i].payload.from = lastRun'.node
                      /\ lastRun'.sent[i].payload.nonce = nodes[lastRun'.node].nonce
                      /\ validSignature(lastRun'.sent[i].payload)
          /\ \A a \in Participants :
                nodes'[a].nonce # nodes[a].nonce =>
                   PostStep /\ ~lastRun'.threw /\ lastRun'.node = a]_vars

\* A participant posted its second transaction, with nonce 1, to both
\* registered clients.
SecondTransactionPosted ==
    /\ lastRun.task = "postTransaction"
    /\ ~lastRun.threw
    /\ Len(nodes[lastRun.node].posted) = 2
    /\ Len(lastRun.sent) = 2
    /\ lastRun.sent[1].payload.nonce = 1

\* The START_MINING callbacks that wait for miner a.
MiningTimers(ts, a) ==
    Cardinality({ i \in 1..Len(ts) : ts[i].to = a /\ ts[i].msg = "START_MINING" })

\* The START_MINING listener of a miner that has blocks left to seal runs
\* findProof in the step.
FindProofStep ==
    /\ TimerStep("START_MINING")
    /\ nodes[lastRun'.node].initialized
    /\ nodes[lastRun'.node].mined < MaxMined

\* No proof value from the candidate's up to below q is valid for it.
NoneValidBelow(b, q) ==
    \A x \in b.proof..(q - 1) : ~hasValidProof([b EXCEPT !.proof = x])

\* What a burst of findProof does to candidate b of miner a: without a seal,
\* it tested the miningRounds values from b.proof on, none valid, and left
\* proof at the next one; with a seal, the sealed block is b with the first
\* valid value, one of those miningRounds.
BurstOf(a, b) ==
    IF lastRun'.sealed = NoBlock
    THEN /\ nodes'[a].currentBlock = [b EXCEPT !.proof = b.proof + nodes[a].miningRounds]
         /\ NoneValidBelow(b, b.proof + nodes[a].miningRounds)
    ELSE /\ lastRun'.sealed = [b EXCEPT !.proof = lastRun'.sealed.proof]
         /\ lastRun'.sealed.proof \in b.proof..(b.proof + nodes[a].miningRounds - 1)
         /\ NoneValidBelow(b, lastRun'.sealed.proof)

\* C26: a findProof call tests at most miningRounds proof values, the
\* consecutive ones from where the candidate's proof stood, and stops at the
\* first valid one; it schedules one START_MINING, behind every message
\* queued before, and between tasks at most one START_MINING waits for a
\* miner, exactly one while the miner is searching.
FindProofBurstBounded ==
    /\ [](\A a \in Participants :
             /\ MiningTimers(timers, a) <= 1
             /\ (nodes[a].initialized /\ nodes[a].mined < MaxMined)
                   => MiningTimers(timers, a) = 1)
    /\ [][FindProofStep =>
             /\ BurstOf(lastRun'.node, nodes[lastRun'.node].currentBlock)
             /\ timers'[Len(timers')] =
                   [to |-> lastRun'.node, msg |-> "START_MINING", payload |-> <<>>]
             /\ MiningTimers(timers', lastRun'.node) = 1]_vars

\* A miner sealed a block in a later burst than the candidate's first: the
\* proof it found is beyond miningRounds.
SealedInLaterBurst ==
    /\ lastRun.task = "timer"
    /\ lastRun.msg = "START_MINING"
    /\ lastRun.sealed # NoBlock
    /\ lastRun.sealed.proof >= nodes[lastRun.node].miningRounds

\* Every entry of the block's balances is at least 0.
NonNegative(b) == \A a \in DOMAIN b.balances : b.balances[a] >= 0

\* C27: no block built from a first parent with balances >= 0 by
\* construction, addTransaction of validly signed transactions and rerun has
\* a negative entry in balances.
NoNegativeBalance == \A i \in 1..Len(chain) : NonNegative(chain[i])

\* C28: every stored block other than the genesis has its parent stored and
\* descends from the genesis; lastBlock is stored, and lastConfirmedBlock,
\* the end of setLastConfirmed's walk, is a stored ancestor of lastBlock.
BlockStoreClosed ==
    /\ \A b \in StoredBlocks :
          BlockId(b) # BlockId(Genesis) =>
             /\ ParentOf(b) \in StoredBlocks
             /\ Genesis \in AncestorsOrSelf(b)
    /\ lastBlock # NoBlock =>
          /\ lastBlock \in StoredBlocks
          /\ lastConfirmedBlock \in StoredBlocks
          /\ lastConfirmedBlock \in AncestorsOrSelf(lastBlock)

\* The last call stored a block; the store holds a fork, and a block other
\* than the one just returned whose parent is not the genesis.
ForkedStoreAfterRelease ==
    /\ lastCall.op = "receiveBlock"
    /\ lastCall.outcome = "accepted"
    /\ \E b1, b2 \in StoredBlocks :
          /\ b1 # b2
          /\ b1.prevBlockHash = b2.prevBlockHash
    /\ \E b \in StoredBlocks :
          /\ ParentOf(b) # NoBlock
          /\ BlockId(ParentOf(b)) # BlockId(Genesis)
          /\ BlockId(b) # lastCall.ret

\* The candidate findProof starts from in the step: the miner's currentBlock,
\* or in the registering step the one startNewSearch has just made.
SearchedCandidate ==
    IF lastRun'.task = "register"
    THEN Candidate(nodes[lastRun'.node])
    ELSE nodes[lastRun'.node].currentBlock

\* The PROOF_FOUND messages the task of the step sent.
Announced ==
    { i \in 1..Len(lastRun'.sent) : lastRun'.sent[i].msg = "PROOF_FOUND" }

\* C29: when findProof seals a block, the block is the candidate as it stood
\* when the task began, with the proof found; its proof is valid; every
\* registered client is sent one PROOF_FOUND, each with the serialization of
\* that block, whose proof is valid for what is deserialized from it; and no
\* handler other than the task's own ran in the task.
AnnouncedProofValid ==
    [][SealStep =>
          /\ lastRun'.sealed = [SearchedCandidate EXCEPT !.proof = lastRun'.sealed.proof]
          /\ hasValidProof(lastRun'.sealed)
          /\ Cardinality(Announced) = Len(clients')
          /\ \A i \in Announced :
                /\ lastRun'.sent[i].payload = serialize(lastRun'.sealed)
                /\ hasValidProof(deserialize(lastRun'.sent[i].payload))
          /\ lastRun'.handled = (IF lastRun'.task = "timer" THEN 1 ELSE 0)]_vars

\* A candidate that took a transaction between two bursts was sealed in a
\* later burst and announced to both registered clients.
SealedAfterTransactionArrived ==
    /\ lastRun.task = "timer"
    /\ lastRun.sealed # NoBlock
    /\ lastRun.sealed.proof > 0
    /\ Len(lastRun.sealed.transactions) > 0
    /\ Len(lastRun.sent) >= 2
    /\ lastRun.sent[1].msg = "PROOF_FOUND"
    /\ lastRun.sent[2].msg = "PROOF_FOUND"

\* The block and its ancestors in the store bs.
RECURSIVE AncestorsIn(_, _)
AncestorsIn(bs, b) ==
    IF b = NoBlock THEN {}
    ELSE {b} \cup AncestorsIn(bs, MapGet(bs, b.prevBlockHash, NoBlock))

\* C30 as stated: whenever lastConfirmedBlock changes, the previous one is an
\* ancestor of the new one.
ConfirmedNeverRolledBack ==
    [][(/\ lastConfirmedBlock # NoBlock
        /\ lastConfirmedBlock' # lastConfirmedBlock)
          => lastConfirmedBlock \in AncestorsIn(blocks', lastConfirmedBlock')]_vars

\* C30 for a new lastBlock on the confirmed chain: whenever lastConfirmedBlock
\* changes and the previous one is an ancestor of the new lastBlock, the
\* previous one is an ancestor of the new one.
ConfirmedKeptOnItsChain ==
    [][(/\ lastConfirmedBlock # NoBlock
        /\ lastConfirmedBlock' # lastConfirmedBlock
        /\ lastConfirmedBlock \in AncestorsIn(blocks', lastBlock'))
          => lastConfirmedBlock \in AncestorsIn(blocks', lastConfirmedBlock')]_vars

\* Both branches are stored and the confirmed block has moved on from the
\* first to the second block of the longer branch.
ConfirmedMovedUpTheBranch ==
    /\ Cardinality(DOMAIN blocks) = 1 + BranchA + BranchB
    /\ lastBlock.chainLength = BranchB
    /\ lastConfirmedBlock.chainLength = BranchB - CONFIRMED_DEPTH
    /\ lastConfirmedBlock.rewardAddr = "m2"

\* C31: no key of pendingBlocks is the id of a stored block, and no block
\* that waits in pendingBlocks is stored.
NoOrphanWaitsOnStoredBlock ==
    /\ DOMAIN pendingBlocks \cap DOMAIN blocks = {}
    /\ \A b \in PendingSet : BlockId(b) \notin DOMAIN blocks


====
